---- MODULE Spec2Model ----
(***************************************************************************)
(* A model of the formlink Form class (src/src/form.ts, first class of the *)
(* file), its TimeoutManager (src/unnamed/part_005), the error formatters  *)
(* (src/src/utils/timeout.ts), the progress tracker, the field proxy and   *)
(* the payload encoder (src/src/utils/file.ts).                            *)
(*                                                                         *)
(* The Form instance is the record `form`.  The environment is the axios   *)
(* transport (the calls awaiting an answer, `calls`), the window's timer   *)
(* table (`timers`) and the caller's hooks.  `settled` is what the hooks   *)
(* of the submit that settled last observed (the tests' vi.fn() spies),    *)
(* `debounced` is what the caller of submitDebounced observed, `written`   *)
(* the outcome of the last assignment made through the field proxy,        *)
(* `sent` the request the last step handed to the transport (the mock),    *)
(* `validated` what the last validation call resolved with, `exported`     *)
(* what the last call of toFormData returned,                              *)
(* `globalThis` the runtime: whether it provides structuredClone.          *)
(***************************************************************************)
EXTENDS Integers, Sequences, FiniteSets, TLC

VARIABLES form, timers, calls, settled, debounced, written, sent, validated,
          exported, globalThis

vars == <<form, timers, calls, settled, debounced, written, sent, validated, exported,
          globalThis>>

(***************************************************************************)
(* Bounds of the model.                                                    *)
(***************************************************************************)
\* The number of submit calls that may await the transport at the same time.
MaxInFlight == 2

(***************************************************************************)
(* Values.                                                                 *)
(***************************************************************************)
\* null / undefined of a nullable property.
Null == [null |-> TRUE]

\* The value read from a missing key.
Undefined == "<undefined>"

\* {} : an object without keys.
EmptyObject == [k \in {} |-> Undefined]

\* obj[key] = value : the object with the key added or overwritten.
Put(obj, key, value) ==
    [k \in (DOMAIN obj) \cup {key} |-> IF k = key THEN value ELSE obj[k]]

\* obj[key] : the value, undefined for a missing key.
Get(obj, key) == IF key \in DOMAIN obj THEN obj[key] ELSE Undefined

\* The fields of the tests' form, new Form({ name: '', email: '' }).
Fields == {"name", "email"}

InitialData == [f \in Fields |-> ""]

\* The values the caller assigns to a field.
Values == {"", "Ann"}

\* Field values that are objects: a File, a Date, and {}, an object without
\* entries.
FileValue == "File(avatar.png)"

DateValue == "Date(1970-01-01T00:00:00.000Z)"

EmptyObjectValue == "{}"

\* Field values of the other types a payload holds: booleans, null, a number,
\* a Blob, an empty array.  undefined is Undefined.
TrueValue == "<true>"

FalseValue == "<false>"

NullValue == "<null>"

NumberValue == "<30>"

BlobValue == "Blob(4 bytes)"

EmptyArrayValue == "[]"

\* Field values that are nested objects: without a binary, with a File in an
\* array of a nested object, and the deepClone of the latter.
AccountValue == "{ name: 'John', tags: ['a', 'b'], active: true }"

UserValue == "{ name: 'John', tags: ['a', File(avatar.png)], born: Date(0), note: null }"

UserCloneValue == "{ name: 'John', tags: ['a', {}], born: {}, note: null }"

\* The structure of a value: a leaf of a type with its text, an object with
\* its entries by key, an array with its items by index.
Leaf(type, value) == [type |-> type, value |-> value, entries |-> [k \in {} |-> Undefined]]

ObjectOf(entries) == [type |-> "object", value |-> "", entries |-> entries]

ArrayOf(items) ==
    [type |-> "array", value |-> "",
     entries |-> [k \in {ToString(i - 1) : i \in 1..Len(items)} |->
                    items[CHOOSE i \in 1..Len(items) : ToString(i - 1) = k]]]

\* The values that are objects to typeof, null apart.
ObjectTypes == {"object", "array", "Date", "File", "Blob"}

\* The value a field value denotes.
Structure(value) ==
    CASE value = FileValue -> Leaf("File", value)
      [] value = BlobValue -> Leaf("Blob", value)
      [] value = DateValue -> Leaf("Date", value)
      [] value = TrueValue -> Leaf("boolean", "true")
      [] value = FalseValue -> Leaf("boolean", "false")
      [] value = NullValue -> Leaf("null", "null")
      [] value = Undefined -> Leaf("undefined", "undefined")
      [] value = NumberValue -> Leaf("number", "30")
      [] value = EmptyObjectValue -> ObjectOf([k \in {} |-> Undefined])
      [] value = EmptyArrayValue -> ArrayOf(<<>>)
      [] value = AccountValue ->
            ObjectOf(("name" :> Leaf("string", "John"))
                     @@ ("tags" :> ArrayOf(<<Leaf("string", "a"), Leaf("string", "b")>>))
                     @@ ("active" :> Leaf("boolean", "true")))
      [] value = UserValue ->
            ObjectOf(("name" :> Leaf("string", "John"))
                     @@ ("tags" :> ArrayOf(<<Leaf("string", "a"), Leaf("File", FileValue)>>))
                     @@ ("born" :> Leaf("Date", DateValue))
                     @@ ("note" :> Leaf("null", "null")))
      [] value = UserCloneValue ->
            ObjectOf(("name" :> Leaf("string", "John"))
                     @@ ("tags" :> ArrayOf(<<Leaf("string", "a"), ObjectOf([k \in {} |-> Undefined])>>))
                     @@ ("born" :> ObjectOf([k \in {} |-> Undefined]))
                     @@ ("note" :> Leaf("null", "null")))
      [] OTHER -> Leaf("string", value)

\* The field values that are objects or arrays.
ObjectValues ==
    {EmptyObjectValue, EmptyArrayValue, AccountValue, UserValue, UserCloneValue}

\* The runtime: typeof globalThis.structuredClone === 'function', or not.
Runtime(available) == [structuredClone |-> available]

\* enum FormState
IDLE == "idle"

PROCESSING == "processing"

SUCCESS == "success"

ERROR == "error"

CANCELLED == "cancelled"

FormStates == {IDLE, PROCESSING, SUCCESS, ERROR, CANCELLED}

\* The keys of the errors object.
ErrorKeys == Fields \cup {"formError"}

(***************************************************************************)
(* Exceptions.  An operation that may throw returns a run record           *)
(* [form, timers, log, exc]: the heap it leaves, the hooks it invoked and  *)
(* the exception it ends with (NoExc when it returns normally).            *)
(***************************************************************************)
NoExc == [kind |-> "none"]

\* An Error instance with a message: new Error(message).
ErrorOf(message) == [kind |-> "error", message |-> message]

\* A thrown value that is no Error instance: throw 'oops'.
ThrownValue == [kind |-> "value"]

\* What a failing hook or a failing transform callback throws.
Thrown == {ErrorOf("boom"), ThrownValue}

\* A scenario of failing hooks: the hooks that throw when they are invoked,
\* and what they throw.
Fault(throwing, thrown) == [throwing |-> throwing, thrown |-> thrown]

NoFault == Fault({}, ErrorOf("boom"))

\* The rejection of a request whose cancel token was cancelled.
CancelError == [kind |-> "cancel"]

\* An AxiosError; response is Null when no response was received.
AxiosErrorOf(response) == [kind |-> "axios", response |-> response]

\* TypeError of Object.entries(undefined).
EntriesTypeError == ErrorOf("Cannot convert undefined or null to object")

Run(f, t) == [form |-> f, timers |-> t, log |-> <<>>, exc |-> NoExc]

\* options.hook(arg), the hook throwing `thrown` when it is one of `throwing`.
Invoke(r, hook, arg, throwing, thrown) ==
    [r EXCEPT !.log = Append(@, [hook |-> hook, arg |-> arg, threw |-> hook \in throwing]),
              !.exc = IF hook \in throwing THEN thrown ELSE NoExc]

Hooks == {"onBefore", "onSuccess", "onError", "onFinish"}

\* The hooks a log names, in order.
HookNames(log) == [i \in 1..Len(log) |-> log[i].hook]

\* onBefore has returned: the log of a submit that awaits its answer.
BeforeLog == <<[hook |-> "onBefore", arg |-> Null, threw |-> FALSE]>>

\* How often a hook occurs in a log.
Count(log, hook) == Cardinality({i \in 1..Len(log) : log[i].hook = hook})

(***************************************************************************)
(* Form: dirty tracking, errors, reset.                                    *)
(***************************************************************************)
\* deepClone(obj) of a structure: a primitive and null are returned as they
\* are, the items of an array are cloned, and of any other object the entries
\* are cloned into a new object; a File, a Blob and a Date have none.
RECURSIVE Cloned(_)
Cloned(node) ==
    IF node.type \notin ObjectTypes
    THEN node
    ELSE IF node.type = "array"
    THEN [node EXCEPT !.entries = [k \in DOMAIN node.entries |-> Cloned(node.entries[k])]]
    ELSE ObjectOf([k \in DOMAIN node.entries |-> Cloned(node.entries[k])])

\* deepClone(obj) of a field value.
deepClone(value) ==
    IF Structure(value).type \notin ObjectTypes
    THEN value
    ELSE CHOOSE v \in ObjectValues : Structure(v) = Cloned(Structure(value))

\* structuredClone(value) of a field value: Files and Dates are cloneable.
structuredClone(value) == value

\* deepCloneData(data): structuredClone where the runtime has it, deepClone of
\* the object, entry by entry, where it has not.
deepCloneData(d) ==
    IF globalThis.structuredClone
    THEN [k \in DOMAIN d |-> structuredClone(d[k])]
    ELSE [k \in DOMAIN d |-> deepClone(d[k])]

\* The constructor, and the property initialisers of the class.
NewForm(initialData) ==
    [data |-> initialData,
     defaults |-> deepCloneData(initialData),
     errors |-> EmptyObject,
     processing |-> FALSE,
     progress |-> Null,
     wasSuccessful |-> FALSE,
     recentlySuccessful |-> FALSE,
     isDirty |-> FALSE,
     rules |-> EmptyObject,
     state |-> IDLE,
     transformCallback |-> Null,
     cancelTokenSource |-> Null,
     timeoutManager |-> EmptyObject,
     dirtyFields |-> {}]

markFieldDirty(f, field) ==
    [f EXCEPT !.dirtyFields = @ \cup {field}, !.isDirty = TRUE]

clearDirtyFields(f) == [f EXCEPT !.dirtyFields = {}, !.isDirty = FALSE]

setError(f, field, message) == [f EXCEPT !.errors = Put(@, field, message)]

clearErrors(f) == [f EXCEPT !.errors = EmptyObject]

\* A reset without the branch for no arguments: with no field named, the
\* loop over the fields restores nothing.
resetFieldByField(f, fields) ==
    LET d == [k \in (DOMAIN f.data) \cup fields |->
                 IF k \in fields THEN deepClone(Get(f.defaults, k)) ELSE f.data[k]]
        df == f.dirtyFields \ fields
        f1 == [f EXCEPT !.data = d, !.dirtyFields = df, !.isDirty = (df # {})]
    IN [clearErrors(f1) EXCEPT !.state = IDLE,
                               !.wasSuccessful = FALSE,
                               !.recentlySuccessful = FALSE]

\* reset(...fields); fields is the set of the names given.
reset(f, fields) ==
    LET f1 == IF fields = {}
              THEN clearDirtyFields([f EXCEPT !.data = deepCloneData(f.defaults)])
              ELSE LET d == [k \in (DOMAIN f.data) \cup fields |->
                                IF k \in fields THEN deepClone(Get(f.defaults, k)) ELSE f.data[k]]
                       df == f.dirtyFields \ fields
                   IN [f EXCEPT !.data = d, !.dirtyFields = df, !.isDirty = (df # {})]
    IN [clearErrors(f1) EXCEPT !.state = IDLE,
                               !.wasSuccessful = FALSE,
                               !.recentlySuccessful = FALSE]

\* setDefaults(field, value)
setDefaultsField(f, field, value) ==
    [f EXCEPT !.defaults = Put(@, field, deepClone(value))]

\* setDefaults(): the current data become the defaults.
setDefaultsAll(f) == [f EXCEPT !.defaults = deepCloneData(f.data)]

\* setDefaults(partial): { ...deepCloneData(defaults), ...deepClone(partial) }
setDefaultsPartial(f, partial) ==
    LET cloned == deepCloneData(f.defaults)
    IN [f EXCEPT !.defaults = [k \in (DOMAIN cloned) \cup (DOMAIN partial) |->
                                  IF k \in DOMAIN partial THEN deepClone(partial[k])
                                  ELSE cloned[k]]]

\* JSON.parse(json): a text is well formed and denotes a value, or it is not
\* and parse throws a SyntaxError.
JsonText(value) == [wellFormed |-> TRUE, value |-> value]

Malformed == [wellFormed |-> FALSE]

\* fromJSON(json, setAsDefaults): any exception of the try block is replaced
\* by the method's own Error and nothing has been assigned by then.
fromJSON(f, json, setAsDefaults) ==
    IF ~json.wellFormed
    THEN [form |-> f, exc |-> ErrorOf("Invalid JSON provided to fromJSON method")]
    ELSE LET parsed == json.value
             f1 == [f EXCEPT !.data = IF "data" \in DOMAIN parsed THEN parsed.data ELSE parsed]
             f2 == IF setAsDefaults THEN setDefaultsAll(f1) ELSE f1
         IN [form |-> clearErrors(clearDirtyFields(f2)), exc |-> NoExc]

(***************************************************************************)
(* Validation.  A rule is a predicate and a message; a validation call     *)
(* returns the form it leaves and the boolean its promise resolves with.   *)
(* The predicates are functions of the value they are given.               *)
(***************************************************************************)
Rule(validate, message) == [validate |-> validate, message |-> message]

\* The rules of the model: the value is not empty; the value is not 'Ann';
\* a predicate that throws.
Required == Rule("value !== ''", "Required")

NotTaken == Rule("value !== 'Ann'", "Taken")

Broken == Rule("throw", "Unreachable")

\* await rule.validate(value): what the predicate returns, or "throws".
Evaluate(rule, value) ==
    IF rule = Required THEN (IF value # "" THEN "true" ELSE "false")
    ELSE IF rule = NotTaken THEN (IF value # "Ann" THEN "true" ELSE "false")
    ELSE "throws"

\* clearError(field)
clearError(f, field) ==
    [f EXCEPT !.errors = [k \in (DOMAIN @) \ {field} |-> @[k]]]

\* The loop of validateField over the rules, from the i-th rule on.
RECURSIVE validateRules(_, _, _, _, _)
validateRules(f, field, value, rules, i) ==
    IF i > Len(rules)
    THEN [form |-> f, result |-> TRUE]
    ELSE LET isValid == Evaluate(rules[i], value)
         IN IF isValid = "throws"
            THEN [form |-> setError(f, field, "Validation error occurred"), result |-> FALSE]
            ELSE IF isValid = "false"
            THEN [form |-> setError(f, field, rules[i].message), result |-> FALSE]
            ELSE validateRules(f, field, value, rules, i + 1)

\* validateField(field)
validateField(f, field) ==
    IF field \notin DOMAIN f.rules \/ Len(f.rules[field]) = 0
    THEN [form |-> f, result |-> TRUE]
    ELSE validateRules(clearError(f, field), field, Get(f.data, field), f.rules[field], 1)

\* The loops of validateDirtyFields and validate over the fields given, with
\* isValid as it is so far.
RECURSIVE validateEach(_, _, _)
validateEach(f, fields, isValid) ==
    IF fields = {}
    THEN [form |-> f, result |-> isValid]
    ELSE LET field == CHOOSE x \in fields : TRUE
             v == validateField(f, field)
         IN validateEach(v.form, fields \ {field}, isValid /\ v.result)

\* validateDirtyFields()
validateDirtyFields(f) == validateEach(f, f.dirtyFields, TRUE)

\* validate(onlyDirty)
validate(f, onlyDirty) ==
    IF onlyDirty
    THEN validateDirtyFields(f)
    ELSE validateEach(clearErrors(f),
                      {field \in DOMAIN f.rules : Len(f.rules[field]) > 0}, TRUE)

(***************************************************************************)
(* The field proxy.                                                        *)
(***************************************************************************)
\* hasOwnProperty(target, prop): the own properties of a Form instance are
\* its class fields.
hasOwnProperty(f, key) == key \in DOMAIN f

\* Methods of Form.prototype.
Methods == {"submit", "reset", "cancel", "transform", "dispose", "validate"}

\* keyExistsIn(target, key): an own property or one of the prototype.
keyExistsIn(f, key) == hasOwnProperty(f, key) \/ key \in Methods

\* The values of the ReservedFieldNames members that reservedFieldNames lists.
reservedFieldNames ==
    {"data", "processing", "isDirty", "wasSuccessful", "recentlySuccessful",
     "submit", "reset", "cancel", "transform", "formError"}

ReservedNameError(fieldName) ==
    ErrorOf("The field name \"" \o fieldName
            \o "\" is reserved and cannot be used in a Form or Errors instance.")

\* guardAgainstReservedFieldName(fieldName): the exception it throws, if any.
guardAgainstReservedFieldName(fieldName) ==
    IF fieldName \in reservedFieldNames THEN ReservedNameError(fieldName) ELSE NoExc

\* A set trap without its last line: a key that nothing defines becomes a
\* property of the form.
proxySetCreatingProperty(f, key, value) ==
    IF hasOwnProperty(f, key)
    THEN [form |-> [f EXCEPT ![key] = value], exc |-> NoExc, returned |-> TRUE]
    ELSE IF guardAgainstReservedFieldName(key) # NoExc
    THEN [form |-> f, exc |-> guardAgainstReservedFieldName(key), returned |-> FALSE]
    ELSE IF key \in DOMAIN f.data /\ f.data[key] # value
    THEN [form |-> [setDefaultsField(f, key, f.data[key]) EXCEPT
                        !.data = Put(@, key, value), !.isDirty = TRUE],
          exc |-> NoExc, returned |-> TRUE]
    ELSE [form |-> Put(f, key, value), exc |-> NoExc, returned |-> TRUE]

\* The proxy's set trap: the form afterwards, the exception thrown and the
\* value the trap returns (false makes the assignment fail).
proxySet(f, key, value) ==
    IF hasOwnProperty(f, key)
    THEN [form |-> [f EXCEPT ![key] = value], exc |-> NoExc, returned |-> TRUE]
    ELSE IF guardAgainstReservedFieldName(key) # NoExc
    THEN [form |-> f, exc |-> guardAgainstReservedFieldName(key), returned |-> FALSE]
    ELSE IF key \in DOMAIN f.data /\ f.data[key] # value
    THEN [form |-> [setDefaultsField(f, key, f.data[key]) EXCEPT
                        !.data = Put(@, key, value), !.isDirty = TRUE],
          exc |-> NoExc, returned |-> TRUE]
    ELSE IF keyExistsIn(f, key)
    THEN [form |-> Put(f, key, value), exc |-> NoExc, returned |-> TRUE]
    ELSE [form |-> f, exc |-> NoExc, returned |-> FALSE]

\* The proxy's get trap.
proxyGet(f, key) ==
    IF key \in DOMAIN f.data THEN f.data[key]
    ELSE IF key \in Methods /\ ~hasOwnProperty(f, key) THEN [fn |-> key]
    ELSE IF keyExistsIn(f, key) THEN f[key]
    ELSE Undefined

\* isFieldDirty(field)
isFieldDirty(f, field) == field \in f.dirtyFields

\* getDirtyFields()
getDirtyFields(f) == f.dirtyFields

(***************************************************************************)
(* The window's timers and the TimeoutManager.  `timers` maps the id of    *)
(* every pending timer to its callback; a heap h is [form, timers].        *)
(***************************************************************************)
\* The ids in use: of the pending timers, and those the manager remembers.
UsedIds(h) ==
    (DOMAIN h.timers) \cup {h.form.timeoutManager[k] : k \in DOMAIN h.form.timeoutManager}

\* window.setTimeout returns an id that names no other timer.
FreshId(h) == CHOOSE i \in 1..(Cardinality(UsedIds(h)) + 1) : i \notin UsedIds(h)

\* window.clearTimeout(id): no effect when the timer is not pending.
clearTimeout(t, id) == [i \in (DOMAIN t) \ {id} |-> t[i]]

\* A clear that forgets the key without clearing its timer.
tmClearKeepingTimer(h, key) ==
    LET m == h.form.timeoutManager
    IN IF key \in DOMAIN m
       THEN [form |-> [h.form EXCEPT !.timeoutManager = [k \in (DOMAIN m) \ {key} |-> m[k]]],
             timers |-> h.timers]
       ELSE h

\* TimeoutManager.clear(key)
tmClear(h, key) ==
    LET m == h.form.timeoutManager
    IN IF key \in DOMAIN m
       THEN [form |-> [h.form EXCEPT !.timeoutManager = [k \in (DOMAIN m) \ {key} |-> m[k]]],
             timers |-> clearTimeout(h.timers, m[key])]
       ELSE h

\* A set that does not clear the timer the key holds: the timer replaced
\* stays pending.
tmSetKeepingTimer(h, key, callback) ==
    LET id == FreshId(h)
    IN [form |-> [h.form EXCEPT !.timeoutManager = Put(@, key, id)],
        timers |-> Put(h.timers, id, [key |-> key, callback |-> callback])]

\* TimeoutManager.set(key, callback, delay)
tmSet(h, key, callback) ==
    LET h1 == tmClear(h, key)
        id == FreshId(h1)
    IN [form |-> [h1.form EXCEPT !.timeoutManager = Put(@, key, id)],
        timers |-> Put(h1.timers, id, [key |-> key, callback |-> callback])]

\* TimeoutManager.clearAll()
tmClearAll(h) ==
    LET m == h.form.timeoutManager
    IN [form |-> [h.form EXCEPT !.timeoutManager = EmptyObject],
        timers |-> [i \in (DOMAIN h.timers) \ {m[k] : k \in DOMAIN m} |-> h.timers[i]]]

\* TimeoutManager.has(key)
tmHas(f, key) == key \in DOMAIN f.timeoutManager

\* The callbacks handed to the manager.
ClearRecentlySuccessful == [fn |-> "recentlySuccessful = false"]

SubmitCallback(args) == [fn |-> "submit", args |-> args]

\* markRecentlySuccessful(timeout = 2000)
markRecentlySuccessful(h) ==
    tmSet([h EXCEPT !.form.recentlySuccessful = TRUE],
          "recentlySuccessful", ClearRecentlySuccessful)

\* The pending timers of a key.
Pending(t, key) == {i \in DOMAIN t : t[i].key = key}

(***************************************************************************)
(* Progress and error formatting.                                          *)
(***************************************************************************)
\* Math.round(loaded / total * 100) for loaded >= 0, total > 0.
Percentage(loaded, total) == (200 * loaded + total) \div (2 * total)

\* createProgressObject(event)
createProgressObject(event) ==
    [total |-> event.total,
     loaded |-> event.loaded,
     percentage |-> Percentage(event.loaded, IF event.total = 0 THEN 1 ELSE event.total),
     bytes |-> event.loaded,
     lengthComputable |-> event.lengthComputable]

\* The upload progress events of the transport; total 0 is an unknown total.
ProgressEvents ==
    {[loaded |-> 1, total |-> 2, lengthComputable |-> TRUE],
     [loaded |-> 2, total |-> 2, lengthComputable |-> TRUE],
     [loaded |-> 1, total |-> 0, lengthComputable |-> FALSE]}

\* A message list of a validation response, and a single message.
List(items) == [isArray |-> TRUE, items |-> items]

Single(message) == [isArray |-> FALSE, message |-> message]

\* messages[messages.length - 1] in place of messages[0].
LastMessage(messages) ==
    IF messages.isArray
    THEN IF Len(messages.items) > 0 THEN messages.items[Len(messages.items)] ELSE Undefined
    ELSE messages.message

\* Array.isArray(messages) ? messages[0] : messages
FirstMessage(messages) ==
    IF messages.isArray
    THEN IF Len(messages.items) > 0 THEN messages.items[1] ELSE Undefined
    ELSE messages.message

\* formatValidationErrors(validationError): Object.entries throws a TypeError
\* when the body has no errors map.
formatValidationErrors(validationError) ==
    IF "errors" \in DOMAIN validationError
    THEN [exc |-> NoExc,
          value |-> [k \in DOMAIN validationError.errors |->
                        FirstMessage(validationError.errors[k])]]
    ELSE [exc |-> EntriesTypeError, value |-> EmptyObject]

\* formatGeneralError(error)
formatGeneralError(error) ==
    "formError" :> (IF error.kind = "error" THEN error.message
                    ELSE "An unexpected error occurred")

\* The messages by status without the branch for 401.
StatusMessageWithout401(status) ==
    IF status = 404 THEN "The requested resource was not found."
    ELSE IF status = 403 THEN "You do not have permission to perform this action."
    ELSE IF status >= 500 THEN "Server error. Please try again later."
    ELSE "Server returned an error (" \o ToString(status) \o "). Please try again."

\* The fixed message of a response status other than 422.
StatusMessage(status) ==
    IF status = 404 THEN "The requested resource was not found."
    ELSE IF status = 403 THEN "You do not have permission to perform this action."
    ELSE IF status = 401 THEN "Authentication required. Please log in and try again."
    ELSE IF status >= 500 THEN "Server error. Please try again later."
    ELSE "Server returned an error (" \o ToString(status) \o "). Please try again."

NetworkMessage == "Network error. Please check your connection and try again."

(***************************************************************************)
(* The transport's answers.                                                *)
(***************************************************************************)
\* The bodies of a 422 response; the last one carries no errors map.
ValidationBodies ==
    {[errors |-> ("email" :> List(<<"Required">>))],
     [errors |-> ("name" :> Single("Name is required"))],
     [errors |-> ("name" :> List(<<"Too short", "Taken">>)) @@ ("email" :> Single("Invalid"))],
     [message |-> "Unprocessable"]}

\* The statuses of the other error responses.
ErrorStatuses == {404, 500}

OkResponse == [status |-> 200, data |-> [message |-> "success"]]

Resolved == [kind |-> "ok", response |-> OkResponse]

Rejected(error) == [kind |-> "rejected", error |-> error]

\* No request was made: the submit failed with `error` before it.
Unsent(error) == [kind |-> "unsent", error |-> error]

\* What the transport may answer a request whose token is not cancelled.
Answers ==
    {Resolved}
    \cup {Rejected(AxiosErrorOf([status |-> 422, data |-> b])) : b \in ValidationBodies}
    \cup {Rejected(AxiosErrorOf([status |-> s, data |-> [message |-> "failed"]])) : s \in ErrorStatuses}
    \cup {Rejected(AxiosErrorOf(Null)), Rejected(ErrorOf("adapter failed"))}

\* The statuses of every category of error response other than 422.
EveryErrorStatus == {400, 401, 403, 404, 500, 503}

\* The failures of the transport of every category other than 422: no
\* response, an error status, an exception that is no axios error.
Failures ==
    {Rejected(AxiosErrorOf([status |-> s, data |-> [message |-> "failed"]])) :
        s \in EveryErrorStatus}
    \cup {Rejected(AxiosErrorOf(Null)), Rejected(ErrorOf("adapter failed")),
          Rejected(ThrownValue)}

(***************************************************************************)
(* Form.submit.                                                            *)
(***************************************************************************)
\* transform(callback)
transform(f, callback) == [f EXCEPT !.transformCallback = callback]

\* The callback of the tests: (data) => ({ ...data, name: data.name.toUpperCase() })
UpperCaseName == [fn |-> "name: data.name.toUpperCase()"]

\* String.prototype.toUpperCase of the values of a field.
toUpperCase(value) == IF value = "Ann" THEN "ANN" ELSE value

\* callback(data)
Apply(callback, data) ==
    [k \in DOMAIN data |-> IF k = "name" THEN toUpperCase(data[k]) ELSE data[k]]

\* hasFiles(data) of a value: a File or a Blob, or an object or an array one
\* of whose values has files.
RECURSIVE hasFilesIn(_)
hasFilesIn(value) ==
    \/ value.type \in {"File", "Blob"}
    \/ \E k \in DOMAIN value.entries : hasFilesIn(value.entries[k])

\* hasFiles(data) of the data of a form.
hasFiles(data) == \E k \in DOMAIN data : hasFilesIn(Structure(data[k]))

\* Date.prototype.toISOString
toISOString(date) == "1970-01-01T00:00:00.000Z"

\* A composeKey that joins the keys of a path with dots.
composeKeyWithDots(parent, key) == IF parent # "" THEN parent \o "." \o key ELSE key

\* composeKey(parent, key); the parent of a top-level key, null, is "".
composeKey(parent, key) == IF parent # "" THEN parent \o "[" \o key \o "]" ELSE key

\* form.append(key, value): an entry of a FormData.
Entry(key, value) == [key |-> key, value |-> value]

\* append(form, key, value): the entries appended to the FormData.
RECURSIVE append(_, _)
append(key, value) ==
    CASE value.type = "array" ->
            UNION {append(composeKey(key, index), value.entries[index]) :
                      index \in DOMAIN value.entries}
      [] value.type = "Date" -> {Entry(key, toISOString(value.value))}
      [] value.type \in {"File", "Blob"} -> {Entry(key, value.value)}
      [] value.type = "boolean" -> {Entry(key, IF value.value = "true" THEN "1" ELSE "0")}
      [] value.type \in {"string", "number"} -> {Entry(key, value.value)}
      [] value.type \in {"null", "undefined"} -> {Entry(key, "")}
      [] value.type = "object" ->
            UNION {append(composeKey(key, k), value.entries[k]) : k \in DOMAIN value.entries}

\* objectToFormData(source) of the data of a form: the entries of the
\* FormData it returns.
objectToFormData(source) ==
    UNION {append(composeKey("", key), Structure(source[key])) : key \in DOMAIN source}

\* appendToFormData(data, parentKey) of toFormData: the entries appended.
RECURSIVE appendToFormData(_, _)
appendToFormData(data, parentKey) ==
    IF data.type \in {"undefined", "null"}
    THEN {}
    ELSE IF data.type \in {"File", "Blob"}
    THEN IF parentKey # "" THEN {Entry(parentKey, data.value)} ELSE {}
    ELSE IF data.type = "array"
    THEN UNION {appendToFormData(data.entries[index], parentKey \o "[" \o index \o "]") :
                   index \in DOMAIN data.entries}
    ELSE IF data.type \in ObjectTypes
    THEN UNION {appendToFormData(data.entries[key],
                                 IF parentKey # "" THEN parentKey \o "[" \o key \o "]" ELSE key) :
                   key \in DOMAIN data.entries}
    ELSE IF parentKey # "" THEN {Entry(parentKey, data.value)} ELSE {}

\* toFormData(): the entries of the FormData it returns.
toFormData(f) ==
    UNION {appendToFormData(Structure(f.data[key]), key) : key \in DOMAIN f.data}

\* The data of a request: an object, or a FormData with its entries.
ObjectBody(object) == [kind |-> "object", value |-> object]

FormDataBody(entries) == [kind |-> "FormData", entries |-> entries]

\* prepareSubmissionData(data, transformCallback)
prepareSubmissionData(data, transformCallback) ==
    LET preprocessedData == IF transformCallback # Null
                            THEN Apply(transformCallback, data)
                            ELSE data
    IN IF hasFiles(data)
       THEN FormDataBody(objectToFormData(data))
       ELSE ObjectBody(preprocessedData)

\* The requestConfig handed to the transport.
Request(data) == [data |-> data]

\* A handleSuccess that leaves the dirty tracking as it is.
handleSuccessKeepingDirty(r, response, throwing, thrown) ==
    LET f1 == [r.form EXCEPT !.wasSuccessful = TRUE, !.state = SUCCESS]
        h == markRecentlySuccessful([form |-> f1, timers |-> r.timers])
    IN Invoke([r EXCEPT !.form = h.form, !.timers = h.timers],
              "onSuccess", response, throwing, thrown)

\* handleSuccess(response, options)
handleSuccess(r, response, throwing, thrown) ==
    LET f1 == clearDirtyFields([r.form EXCEPT !.wasSuccessful = TRUE, !.state = SUCCESS])
        h == markRecentlySuccessful([form |-> f1, timers |-> r.timers])
    IN Invoke([r EXCEPT !.form = h.form, !.timers = h.timers],
              "onSuccess", response, throwing, thrown)

\* The errors handleError records for an error that is no cancellation, and
\* the exception raised while formatting them.
classifyError(error) ==
    IF error.kind = "axios"
    THEN IF error.response = Null
         THEN [exc |-> NoExc, value |-> ("formError" :> NetworkMessage)]
         ELSE IF error.response.status = 422
         THEN formatValidationErrors(error.response.data)
         ELSE [exc |-> NoExc, value |-> ("formError" :> StatusMessage(error.response.status))]
    ELSE [exc |-> NoExc, value |-> formatGeneralError(error)]

\* A handleError without the axios.isCancel branch: a cancellation is
\* recorded like any other error that is no axios error.
handleErrorOfCancel(r, error, throwing, thrown) ==
    LET c == IF error = CancelError
             THEN [exc |-> NoExc, value |-> ("formError" :> "canceled")]
             ELSE classifyError(error)
        r1 == [r EXCEPT !.form.state = ERROR]
    IN IF c.exc # NoExc
       THEN [r1 EXCEPT !.exc = c.exc]
       ELSE Invoke([r1 EXCEPT !.form.errors = c.value],
                   "onError", c.value, throwing, thrown)

\* handleError(error, options)
handleError(r, error, throwing, thrown) ==
    IF error = CancelError
    THEN [r EXCEPT !.form.state = CANCELLED, !.exc = NoExc]
    ELSE LET c == classifyError(error)
             r1 == [r EXCEPT !.form.state = ERROR]
         IN IF c.exc # NoExc
            THEN [r1 EXCEPT !.exc = c.exc]
            ELSE Invoke([r1 EXCEPT !.form.errors = c.value],
                        "onError", c.value, throwing, thrown)

\* The statements of the finally block placed after the try statement
\* instead: they are skipped when the catch block throws.
submitAfterTry(r, throwing, thrown) ==
    IF r.exc # NoExc
    THEN r
    ELSE Invoke([r EXCEPT !.form.processing = FALSE], "onFinish", Null, throwing, thrown)

\* A finally block that invokes onFinish and leaves processing as it is.
submitFinallyKeepingProcessing(r, throwing, thrown) ==
    LET r1 == Invoke(r, "onFinish", Null, throwing, thrown)
    IN IF r1.exc # NoExc THEN r1 ELSE [r1 EXCEPT !.exc = r.exc]

\* The finally block of submit: the exception of the try or catch block stays
\* pending unless onFinish throws another one.
submitFinally(r, throwing, thrown) ==
    LET r1 == Invoke([r EXCEPT !.form.processing = FALSE], "onFinish", Null, throwing, thrown)
    IN IF r1.exc # NoExc THEN r1 ELSE [r1 EXCEPT !.exc = r.exc]

\* The catch block followed by the finally block.
submitCatch(r, error, throwing, thrown) ==
    submitFinally(handleError(r, error, throwing, thrown), throwing, thrown)

\* submit up to the request: the statements before the try block, onBefore
\* and prepareSubmissionData, which throws `prepared` unless that is NoExc.
submitBegin(r, token, prepared, throwing, thrown) ==
    LET f1 == clearErrors([r.form EXCEPT !.processing = TRUE, !.state = PROCESSING])
        f2 == [f1 EXCEPT !.cancelTokenSource = token]
        r1 == Invoke([r EXCEPT !.form = f2], "onBefore", Null, throwing, thrown)
    IN IF r1.exc # NoExc THEN r1 ELSE [r1 EXCEPT !.exc = prepared]

\* submit after the await: the rest of the try block, then catch and finally.
submitResume(r, answer, throwing, thrown) ==
    IF answer.kind = "ok"
    THEN LET r1 == handleSuccess(r, answer.response, throwing, thrown)
         IN IF r1.exc = NoExc
            THEN submitFinally(r1, throwing, thrown)
            ELSE submitCatch(r1, r1.exc, throwing, thrown)
    ELSE submitCatch(r, answer.error, throwing, thrown)

\* The promise submit returns.
PromiseOf(r) == IF r.exc = NoExc THEN "resolved" ELSE "rejected"

\* cancel(): the form's part.
cancel(f) == [f EXCEPT !.processing = FALSE, !.progress = Null, !.state = CANCELLED]

\* The requests awaiting their answer: `latest` is the request that was given
\* the token form.cancelTokenSource holds ("none" once it was answered),
\* `flying` and `cancelled` count the requests given earlier tokens, by
\* whether their token was cancelled.
NoCalls == [latest |-> "none", flying |-> 0, cancelled |-> 0]

InFlight(cs) == cs.flying + cs.cancelled + (IF cs.latest = "none" THEN 0 ELSE 1)

\* this.cancelTokenSource = axios.CancelToken.source(), and the request made
\* with its token: the token held before is dropped with its request.
newToken(cs) ==
    [latest |-> "flying",
     flying |-> cs.flying + (IF cs.latest = "flying" THEN 1 ELSE 0),
     cancelled |-> cs.cancelled + (IF cs.latest = "cancelled" THEN 1 ELSE 0)]

\* cancelTokenSource.cancel(): the request that was given this token, if it
\* still awaits its answer, is rejected with a cancellation.
cancelToken(f, cs) ==
    IF f.cancelTokenSource # Null /\ cs.latest = "flying"
    THEN [cs EXCEPT !.latest = "cancelled"]
    ELSE cs

\* The requests the transport may answer next.
Awaiting(cs) ==
    {k \in {"latest", "flying", "cancelled"} :
        IF k = "latest" THEN cs.latest # "none" ELSE cs[k] > 0}

IsCancelled(cs, k) == IF k = "latest" THEN cs.latest = "cancelled" ELSE k = "cancelled"

\* The requests left when request k is answered.
answered(cs, k) ==
    IF k = "latest" THEN [cs EXCEPT !.latest = "none"] ELSE [cs EXCEPT ![k] = @ - 1]

\* A dispose that leaves the timers of the TimeoutManager alone.
disposeKeepingTimers(h) ==
    LET h1 == [h EXCEPT !.form = clearErrors(cancel(h.form))]
    IN [h1 EXCEPT !.form.data = EmptyObject,
                  !.form.defaults = EmptyObject,
                  !.form.transformCallback = Null,
                  !.form.dirtyFields = {},
                  !.form.rules = EmptyObject,
                  !.form.state = IDLE,
                  !.form.processing = FALSE,
                  !.form.wasSuccessful = FALSE,
                  !.form.recentlySuccessful = FALSE,
                  !.form.isDirty = FALSE,
                  !.form.progress = Null]

\* dispose(), after its call of cancel().
dispose(h) ==
    LET h1 == tmClearAll([h EXCEPT !.form = clearErrors(cancel(h.form))])
    IN [h1 EXCEPT !.form.data = EmptyObject,
                  !.form.defaults = EmptyObject,
                  !.form.transformCallback = Null,
                  !.form.dirtyFields = {},
                  !.form.rules = EmptyObject,
                  !.form.state = IDLE,
                  !.form.processing = FALSE,
                  !.form.wasSuccessful = FALSE,
                  !.form.recentlySuccessful = FALSE,
                  !.form.isDirty = FALSE,
                  !.form.progress = Null]

(***************************************************************************)
(* The state machine.                                                      *)
(***************************************************************************)
\* The (method, url, options) triples the caller submits with.
Requests == {[method |-> "post", url |-> "/a"], [method |-> "put", url |-> "/b"]}

\* axios.CancelToken.source()
TokenSource == [token |-> "CancelToken"]

\* The fields the caller writes, marks and resets, and the messages it sets.
TrackedFields == {"name"}

\* The data objects forms are constructed with: the fields of the tests, a
\* field named like a class field of Form, fields with reserved names.
InitialDatas ==
    {InitialData,
     ("name" :> "") @@ ("state" :> ""),
     ("name" :> "") @@ ("submit" :> ""),
     ("name" :> "") @@ ("isDirty" :> TRUE)}

\* The data objects of the forms whose values are cloned: the fields of the
\* tests, a Date field, a File field.
ClonedDatas ==
    {InitialData,
     ("name" :> "") @@ ("when" :> DateValue),
     ("name" :> "") @@ ("avatar" :> FileValue)}

\* The data objects of the forms that are submitted with a transform: the
\* fields of the tests, and a form with a File field.
SubmittedDatas == {InitialData, ("name" :> "") @@ ("avatar" :> FileValue)}

\* The callbacks given to transform.
TransformCallbacks == {UpperCaseName}

\* The data objects of the forms whose payload is encoded: the fields of the
\* tests; nested objects and arrays without a binary; a File and a nested
\* object with a File in an array, among values of every other type; a Blob
\* beside an empty array and an empty object.
EncodedDatas ==
    {InitialData,
     ("name" :> "Ann") @@ ("account" :> AccountValue) @@ ("active" :> TrueValue)
         @@ ("born" :> DateValue) @@ ("note" :> NullValue),
     ("avatar" :> FileValue) @@ ("user" :> UserValue) @@ ("active" :> TrueValue)
         @@ ("inactive" :> FalseValue) @@ ("empty" :> NullValue) @@ ("missing" :> Undefined)
         @@ ("born" :> DateValue) @@ ("age" :> NumberValue) @@ ("name" :> "Ann"),
     ("name" :> "") @@ ("user" :> UserValue),
     ("doc" :> BlobValue) @@ ("items" :> EmptyArrayValue) @@ ("meta" :> EmptyObjectValue)
         @@ ("account" :> AccountValue)}

\* The keys the caller assigns through the proxy: data fields, a class field
\* and a method with reserved names, a key nothing defines, a reserved name
\* nothing defines.
ProxyKeys ==
    {"name", "email", "state", "processing", "isDirty", "submit", "nickname", "formError"}

\* The values assigned to a key.
ProxyValues(key) == IF key \in {"processing", "isDirty"} THEN {TRUE} ELSE Values

\* The partial objects given to setDefaults.
Partials == {("email" :> "Ann")}

\* The texts given to fromJSON.
JsonTexts ==
    {JsonText(("name" :> "Ann") @@ ("email" :> "")),
     JsonText([data |-> ("name" :> "") @@ ("reset" :> "Ann")]),
     Malformed}

UserMessages == {"Invalid"}

\* The members of the options of a submit besides the hooks of the log:
\* none, resetOnSuccess, an onCanceled hook.
NoOptions == EmptyObject

OnCanceled == [fn |-> "onCanceled"]

SubmitOptions ==
    {NoOptions,
     [resetOnSuccess |-> TRUE],
     [resetOnSuccess |-> FALSE],
     [onCanceled |-> OnCanceled]}

\* The rules the caller assigns to form.rules: none; rules for name, with an
\* empty list for email; rules for both fields, one of them throwing.
RuleSets ==
    {EmptyObject,
     ("name" :> <<Required, NotTaken>>) @@ ("email" :> <<>>),
     ("name" :> <<NotTaken, Broken>>) @@ ("email" :> <<Required>>)}

\* The scenarios explored of a submit that fails before its request is made:
\* onBefore or the preparation of the data throws, and then possibly a hook
\* of the catch or the finally block.
StartFaults ==
    {[prepared |-> NoExc, fault |-> Fault({"onBefore"} \cup hs, t)] :
        hs \in {{}, {"onError"}, {"onFinish"}}, t \in Thrown}
    \cup {[prepared |-> t, fault |-> Fault(hs, ErrorOf("boom"))] :
        hs \in {{}, {"onError"}, {"onFinish"}}, t \in Thrown}

\* The scenarios explored of the hooks of a submit whose request is answered.
ResumeFaults(answer) ==
    IF answer.kind = "ok"
    THEN {NoFault, Fault({"onFinish"}, ErrorOf("boom")),
          Fault({"onSuccess", "onError"}, ErrorOf("boom"))}
         \cup {Fault({"onSuccess"}, t) : t \in Thrown}
    ELSE IF answer.error = CancelError
    THEN {NoFault, Fault({"onFinish"}, ErrorOf("boom"))}
    ELSE {NoFault, Fault({"onFinish"}, ErrorOf("boom")), Fault({"onError"}, ErrorOf("boom"))}

Init ==
    /\ globalThis = Runtime(TRUE)
    /\ form = NewForm(InitialData)
    /\ timers = EmptyObject
    /\ calls = NoCalls
    /\ settled = Null
    /\ debounced = Null
    /\ written = Null
    /\ sent = Null
    /\ validated = Null
    /\ exported = Null

\* What the caller of a submit sees when it settles: the answer of the
\* transport, the hooks invoked, the promise, and the options it gave apart
\* from the hooks of the log.
Settled(answer, r, options) ==
    [answer |-> answer, log |-> r.log, promise |-> PromiseOf(r), options |-> options]

\* A call of submit(method, url, options) on the heap h that reaches its await.
StartSubmit(h) ==
    /\ InFlight(calls) < MaxInFlight
    /\ \E r \in {submitBegin(Run(h.form, h.timers), TokenSource, NoExc, {}, ErrorOf("boom"))} :
         /\ form' = r.form
         /\ timers' = r.timers
    /\ calls' = newToken(calls)
    /\ settled' = Null
    /\ sent' = Request(prepareSubmissionData(h.form.data, h.form.transformCallback))
    /\ validated' = Null
    /\ exported' = Null

\* A call of submit on the heap h in which onBefore or the preparation of the
\* data throws: it runs to its end without a request.
FailSubmit(h, start) ==
    \E r \in {submitBegin(Run(h.form, h.timers), TokenSource, start.prepared,
                          start.fault.throwing, start.fault.thrown)} :
      \E r2 \in {submitCatch(r, r.exc, start.fault.throwing, start.fault.thrown)} :
         /\ form' = r2.form
         /\ timers' = r2.timers
         /\ settled' = Settled(Unsent(r.exc), r2, NoOptions)
         /\ sent' = Null
         /\ validated' = Null
         /\ exported' = Null
         /\ calls' = [calls EXCEPT !.flying = @ + (IF calls.latest = "flying" THEN 1 ELSE 0),
                                   !.cancelled = @ + (IF calls.latest = "cancelled" THEN 1 ELSE 0),
                                   !.latest = "none"]

\* form.submit(method, url, options)
Submit ==
    /\ \/ StartSubmit([form |-> form, timers |-> timers])
       \/ \E start \in StartFaults : FailSubmit([form |-> form, timers |-> timers], start)
    /\ written' = Null
    /\ UNCHANGED globalThis
    /\ UNCHANGED debounced

\* The transport reports upload progress of a request it is sending.
UploadProgress ==
    \E k \in Awaiting(calls), event \in ProgressEvents :
        /\ ~IsCancelled(calls, k)
        /\ form' = IF event.total # 0
                   THEN [form EXCEPT !.progress = createProgressObject(event)]
                   ELSE form
        /\ settled' = Null
        /\ written' = Null
        /\ UNCHANGED globalThis
        /\ sent' = Null
        /\ validated' = Null
        /\ exported' = Null
        /\ UNCHANGED <<timers, calls, debounced>>

\* The transport answers a request with one of the answers and the submit
\* that awaits it, called with one of the option objects given, runs to its
\* end.  A request whose token was cancelled is rejected with the cancellation.
TransportOf(answers, given) ==
    \E k \in Awaiting(calls), options \in given :
      \E answer \in IF IsCancelled(calls, k) THEN {Rejected(CancelError)} ELSE answers :
        \E fault \in ResumeFaults(answer) :
          \E r \in {submitResume(
                      [Run(form, timers) EXCEPT !.log = BeforeLog],
                      answer, fault.throwing, fault.thrown)} :
             /\ form' = r.form
             /\ timers' = r.timers
             /\ calls' = answered(calls, k)
             /\ settled' = Settled(answer, r, options)
             /\ written' = Null
             /\ UNCHANGED globalThis
             /\ sent' = Null
             /\ validated' = Null
             /\ exported' = Null
             /\ UNCHANGED debounced

\* The transport answers a request.
Transport == TransportOf(Answers, {NoOptions})

\* The transport answers a request of a submit called with resetOnSuccess or
\* onCanceled among its options.
TransportWithOptions == TransportOf(Answers, SubmitOptions)

\* The transport answers a request with a failure of any category.
TransportFails == TransportOf(Failures, {NoOptions})

\* form.cancel()
Cancel ==
    /\ form' = cancel(form)
    /\ calls' = cancelToken(form, calls)
    /\ settled' = Null
    /\ written' = Null
    /\ UNCHANGED globalThis
    /\ sent' = Null
    /\ validated' = Null
    /\ exported' = Null
    /\ UNCHANGED <<timers, debounced>>

\* form.submitDebounced(method, url, options, debounceTime)
SubmitDebounced ==
    \E args \in Requests :
        \E h \in {tmSet([form |-> form, timers |-> timers], "debounce", SubmitCallback(args))} :
           /\ form' = h.form
           /\ timers' = h.timers
           /\ debounced' = [last |-> args,
                            replaced |-> Pending(timers, "debounce") # {},
                            started |-> <<>>]
           /\ settled' = Null
           /\ written' = Null
           /\ UNCHANGED globalThis
           /\ sent' = Null
           /\ validated' = Null
           /\ exported' = Null
           /\ UNCHANGED calls

\* The delay of a debounce timer has elapsed: its callback calls submit.
DebounceFires ==
    \E id \in DOMAIN timers :
        /\ timers[id].callback.fn = "submit"
        /\ \/ StartSubmit([form |-> form, timers |-> clearTimeout(timers, id)])
           \/ \E start \in StartFaults :
                  FailSubmit([form |-> form, timers |-> clearTimeout(timers, id)], start)
        /\ debounced' = IF debounced = Null THEN Null
                        ELSE [debounced EXCEPT !.started = Append(@, timers[id].callback.args)]
        /\ written' = Null
        /\ UNCHANGED globalThis

\* The window of a recently-successful timer has elapsed.
RecentlySuccessfulExpires ==
    \E id \in DOMAIN timers :
        /\ timers[id].callback = ClearRecentlySuccessful
        /\ form' = [form EXCEPT !.recentlySuccessful = FALSE]
        /\ timers' = clearTimeout(timers, id)
        /\ settled' = Null
        /\ written' = Null
        /\ UNCHANGED globalThis
        /\ sent' = Null
        /\ validated' = Null
        /\ exported' = Null
        /\ UNCHANGED <<calls, debounced>>

\* form[field] = value, through the proxy.
WriteThroughProxy(keys) ==
    \E key \in keys :
      \E value \in ProxyValues(key) :
        \E w \in {proxySet(form, key, value)} :
            /\ form' = w.form
            /\ written' = [key |-> key, value |-> value,
                           exc |-> w.exc, returned |-> w.returned]
            /\ settled' = Null
            /\ sent' = Null
            /\ validated' = Null
            /\ exported' = Null
            /\ UNCHANGED <<timers, calls, debounced, globalThis>>

\* form[key] = value for any of the keys the caller assigns.
SetField == WriteThroughProxy(ProxyKeys)

\* form[field] = value for a field of data.
SetDataField == WriteThroughProxy(DOMAIN form.data)

\* form.setDefaults(), form.setDefaults(field, value), form.setDefaults(partial)
SetDefaults ==
    /\ \/ form' = setDefaultsAll(form)
       \/ \E field \in TrackedFields, value \in Values :
              form' = setDefaultsField(form, field, value)
       \/ \E partial \in Partials : form' = setDefaultsPartial(form, partial)
    /\ settled' = Null
    /\ written' = Null
    /\ UNCHANGED globalThis
    /\ sent' = Null
    /\ validated' = Null
    /\ exported' = Null
    /\ UNCHANGED <<timers, calls, debounced>>

\* form.fromJSON(json, setAsDefaults)
FromJSON ==
    \E json \in JsonTexts, setAsDefaults \in BOOLEAN :
        /\ form' = fromJSON(form, json, setAsDefaults).form
        /\ settled' = Null
        /\ written' = Null
        /\ UNCHANGED globalThis
        /\ sent' = Null
        /\ validated' = Null
        /\ exported' = Null
        /\ UNCHANGED <<timers, calls, debounced>>

\* form.markFieldDirty(field)
MarkFieldDirty ==
    \E field \in TrackedFields :
        /\ form' = markFieldDirty(form, field)
        /\ settled' = Null
        /\ written' = Null
        /\ UNCHANGED globalThis
        /\ sent' = Null
        /\ validated' = Null
        /\ exported' = Null
        /\ UNCHANGED <<timers, calls, debounced>>

\* form.reset(...fields)
Reset ==
    \E fields \in SUBSET TrackedFields :
        /\ form' = reset(form, fields)
        /\ settled' = Null
        /\ written' = Null
        /\ UNCHANGED globalThis
        /\ sent' = Null
        /\ validated' = Null
        /\ exported' = Null
        /\ UNCHANGED <<timers, calls, debounced>>

\* form.reset() with no arguments.
ResetAll ==
    /\ form' = reset(form, {})
    /\ settled' = Null
    /\ written' = Null
    /\ UNCHANGED globalThis
    /\ sent' = Null
    /\ validated' = Null
    /\ exported' = Null
    /\ UNCHANGED <<timers, calls, debounced>>

\* form.reset(...fields) with the fields given.
ResetOf(fields) ==
    /\ form' = reset(form, fields)
    /\ settled' = Null
    /\ written' = Null
    /\ UNCHANGED globalThis
    /\ sent' = Null
    /\ validated' = Null
    /\ exported' = Null
    /\ UNCHANGED <<timers, calls, debounced>>

\* form.reset(f1, ..., fn) with any of the fields of the form named.
ResetNamed == \E fields \in (SUBSET DOMAIN form.data) \ {{}} : ResetOf(fields)

\* form.markFieldDirty(field) for any field of the form.
MarkAnyFieldDirty ==
    \E field \in DOMAIN form.data :
        /\ form' = markFieldDirty(form, field)
        /\ settled' = Null
        /\ written' = Null
        /\ UNCHANGED globalThis
        /\ sent' = Null
        /\ validated' = Null
        /\ exported' = Null
        /\ UNCHANGED <<timers, calls, debounced>>

\* form.setDefaults() followed immediately by form.reset().
SnapshotThenRestore ==
    /\ form' = reset(setDefaultsAll(form), {})
    /\ settled' = Null
    /\ written' = Null
    /\ sent' = Null
    /\ validated' = Null
    /\ exported' = Null
    /\ UNCHANGED <<timers, calls, debounced, globalThis>>

\* form.transform(callback)
Transform ==
    \E callback \in TransformCallbacks :
        /\ form' = transform(form, callback)
        /\ settled' = Null
        /\ written' = Null
        /\ sent' = Null
        /\ validated' = Null
        /\ exported' = Null
        /\ UNCHANGED <<timers, calls, debounced, globalThis>>

\* form.toFormData()
ToFormData ==
    /\ exported' = FormDataBody(toFormData(form))
    /\ settled' = Null
    /\ written' = Null
    /\ sent' = Null
    /\ validated' = Null
    /\ UNCHANGED <<form, timers, calls, debounced, globalThis>>

\* form.rules = rules
SetRules ==
    \E rules \in RuleSets :
        /\ form' = [form EXCEPT !.rules = rules]
        /\ settled' = Null
        /\ written' = Null
        /\ sent' = Null
        /\ validated' = Null
        /\ exported' = Null
        /\ UNCHANGED <<timers, calls, debounced, globalThis>>

\* await form.validateField(field)
ValidateField ==
    \E field \in DOMAIN form.data :
      \E v \in {validateField(form, field)} :
        /\ form' = v.form
        /\ validated' = [call |-> "validateField", field |-> field, result |-> v.result]
        /\ exported' = Null
        /\ settled' = Null
        /\ written' = Null
        /\ sent' = Null
        /\ UNCHANGED <<timers, calls, debounced, globalThis>>

\* await form.validate(onlyDirty)
Validate ==
    \E onlyDirty \in BOOLEAN :
      \E v \in {validate(form, onlyDirty)} :
        /\ form' = v.form
        /\ validated' = [call |-> "validate", onlyDirty |-> onlyDirty, result |-> v.result]
        /\ exported' = Null
        /\ settled' = Null
        /\ written' = Null
        /\ sent' = Null
        /\ UNCHANGED <<timers, calls, debounced, globalThis>>

\* form.setError(field, message) for any field of the form.
SetAnyError ==
    \E field \in DOMAIN form.data, message \in UserMessages :
        /\ form' = setError(form, field, message)
        /\ settled' = Null
        /\ written' = Null
        /\ sent' = Null
        /\ validated' = Null
        /\ exported' = Null
        /\ UNCHANGED <<timers, calls, debounced, globalThis>>

\* form.setError(field, message)
SetError ==
    \E field \in TrackedFields, message \in UserMessages :
        /\ form' = setError(form, field, message)
        /\ settled' = Null
        /\ written' = Null
        /\ UNCHANGED globalThis
        /\ sent' = Null
        /\ validated' = Null
        /\ exported' = Null
        /\ UNCHANGED <<timers, calls, debounced>>

\* form.dispose()
Dispose ==
    \E h \in {dispose([form |-> form, timers |-> timers])} :
       /\ form' = h.form
       /\ timers' = h.timers
       /\ calls' = cancelToken(form, calls)
       /\ settled' = Null
       /\ written' = Null
       /\ UNCHANGED globalThis
       /\ sent' = Null
       /\ validated' = Null
       /\ exported' = Null
       /\ UNCHANGED debounced

\* The submission lifecycle: submits that may overlap, the transport, cancel,
\* reset, errors set by the caller, fields marked dirty, the success window.
Next ==
    \/ Submit
    \/ UploadProgress
    \/ Transport
    \/ Cancel
    \/ Reset
    \/ SetError
    \/ MarkFieldDirty
    \/ RecentlySuccessfulExpires

Spec == Init /\ [][Next]_vars

\* One submission at a time: submit is not called while a submit has not
\* settled, and the errors are left to the form.
NextSerial ==
    \/ InFlight(calls) = 0 /\ Submit
    \/ UploadProgress
    \/ Transport
    \/ Cancel
    \/ Reset
    \/ MarkFieldDirty
    \/ RecentlySuccessfulExpires
    \/ Dispose

SpecSerial == Init /\ [][NextSerial]_vars

\* Debounced submission: the debounce timer and the success-window timer
\* share the TimeoutManager.
NextDebounce ==
    \/ SubmitDebounced
    \/ DebounceFires
    \/ Transport
    \/ Cancel
    \/ RecentlySuccessfulExpires

SpecDebounce == Init /\ [][NextDebounce]_vars

\* The success window: every window timer that is set fires unless it is
\* cleared first.
NextWindow ==
    \/ Submit
    \/ Transport
    \/ Cancel
    \/ Reset
    \/ RecentlySuccessfulExpires
    \/ Dispose

SpecWindow == Init /\ [][NextWindow]_vars /\ WF_vars(RecentlySuccessfulExpires)

\* Disposal of a form that is submitted, directly and debounced, one
\* submission at a time.
NextDispose ==
    \/ InFlight(calls) = 0 /\ Submit
    \/ SubmitDebounced
    \/ InFlight(calls) = 0 /\ DebounceFires
    \/ UploadProgress
    \/ Transport
    \/ Cancel
    \/ SetError
    \/ MarkFieldDirty
    \/ RecentlySuccessfulExpires
    \/ Dispose

SpecDispose == Init /\ [][NextDispose]_vars

\* Field tracking: forms constructed with any of the data objects, written
\* through the proxy, marked, reset, given defaults and loaded from JSON.
InitFields ==
    /\ globalThis = Runtime(TRUE)
    /\ form \in {NewForm(d) : d \in InitialDatas}
    /\ timers = EmptyObject
    /\ calls = NoCalls
    /\ settled = Null
    /\ debounced = Null
    /\ written = Null
    /\ sent = Null
    /\ validated = Null
    /\ exported = Null

NextFields ==
    \/ SetField
    \/ MarkFieldDirty
    \/ Reset
    \/ SetDefaults
    \/ FromJSON

SpecFields == InitFields /\ [][NextFields]_vars

\* Field tracking by the form alone, of a form constructed with the fields of
\* the tests: the caller assigns to data fields only and marks none itself.
NextAssign ==
    \/ SetDataField
    \/ Reset
    \/ SetDefaults
    \/ FromJSON

SpecAssign == Init /\ [][NextAssign]_vars

\* Reset of a form whose fields are assigned and marked and which is
\* submitted, one submission at a time.
NextReset ==
    \/ SetDataField
    \/ MarkFieldDirty
    \/ InFlight(calls) = 0 /\ Submit
    \/ Transport
    \/ Reset

SpecReset == Init /\ [][NextReset]_vars

\* Snapshots and restores: forms constructed with text fields, a Date or a
\* File, on a runtime with or without structuredClone.
InitCloned ==
    /\ globalThis \in {Runtime(TRUE), Runtime(FALSE)}
    /\ form \in {NewForm(d) : d \in ClonedDatas}
    /\ timers = EmptyObject
    /\ calls = NoCalls
    /\ settled = Null
    /\ debounced = Null
    /\ written = Null
    /\ sent = Null
    /\ validated = Null
    /\ exported = Null

\* Reset of named fields: every field of the form is assigned, marked dirty
\* and named in resets, and the defaults are moved by setDefaults.
NextNamedReset ==
    \/ SetDataField
    \/ MarkAnyFieldDirty
    \/ SetDefaults
    \/ ResetNamed
    \/ ResetAll

SpecNamedReset == InitCloned /\ [][NextNamedReset]_vars

\* Snapshot-then-restore of forms whose fields are assigned, marked dirty
\* and given defaults.
NextSnapshot ==
    \/ SetDataField
    \/ MarkAnyFieldDirty
    \/ SetDefaults
    \/ SnapshotThenRestore

SpecSnapshot == InitCloned /\ [][NextSnapshot]_vars

\* Submission with a transform callback: forms with and without a File field
\* are assigned, given the callback and submitted, one submission at a time.
InitTransform ==
    /\ globalThis = Runtime(TRUE)
    /\ form \in {NewForm(d) : d \in SubmittedDatas}
    /\ timers = EmptyObject
    /\ calls = NoCalls
    /\ settled = Null
    /\ debounced = Null
    /\ written = Null
    /\ sent = Null
    /\ validated = Null
    /\ exported = Null

NextTransform ==
    \/ SetDataField
    \/ Transform
    \/ InFlight(calls) = 0 /\ Submit
    \/ Transport

SpecTransform == InitTransform /\ [][NextTransform]_vars

\* Failing submissions: submits that may overlap, failures of every category,
\* cancel, and errors set by the caller.
NextFailures ==
    \/ Submit
    \/ TransportFails
    \/ Cancel
    \/ SetError

SpecFailures == Init /\ [][NextFailures]_vars

\* Submission with options: a form whose fields are assigned is submitted,
\* one submission at a time, with resetOnSuccess or an onCanceled hook, and
\* cancelled.
NextOptions ==
    \/ SetDataField
    \/ InFlight(calls) = 0 /\ Submit
    \/ TransportWithOptions
    \/ Cancel

SpecOptions == Init /\ [][NextOptions]_vars

\* Validation: a form is given rules, its fields are assigned and marked
\* dirty, errors are set by the caller, and it is validated and reset.  Every
\* validation call is awaited before the next call is made.
NextValidate ==
    \/ SetRules
    \/ SetDataField
    \/ MarkAnyFieldDirty
    \/ SetAnyError
    \/ ValidateField
    \/ Validate
    \/ ResetAll

SpecValidate == Init /\ [][NextValidate]_vars

\* Settling: one submission at a time, and the transport answers every
\* request it was given, in the end.
SpecSettle == Init /\ [][NextSerial]_vars /\ WF_vars(Transport)

\* Payload encoding: forms constructed with nested data, with and without
\* binaries, are submitted, one submission at a time, cancelled and exported.
InitEncode ==
    /\ globalThis = Runtime(TRUE)
    /\ form \in {NewForm(d) : d \in EncodedDatas}
    /\ timers = EmptyObject
    /\ calls = NoCalls
    /\ settled = Null
    /\ debounced = Null
    /\ written = Null
    /\ sent = Null
    /\ validated = Null
    /\ exported = Null

NextEncode ==
    \/ InFlight(calls) = 0 /\ Submit
    \/ Transport
    \/ Cancel
    \/ ToFormData

SpecEncode == InitEncode /\ [][NextEncode]_vars

(***************************************************************************)
(* Properties of the submission lifecycle.                                 *)
(***************************************************************************)
\* No hook of the submit that settled threw.
NoHookThrew(log) == \A i \in 1..Len(log) : ~log[i].threw

\* A hook was invoked with an argument.
Invoked(log, hook, arg) == \E i \in 1..Len(log) : log[i].hook = hook /\ log[i].arg = arg

\* The transport rejected with a 422 response whose body carries an errors map.
Is422WithErrors(answer) ==
    /\ answer.kind = "rejected"
    /\ answer.error.kind = "axios"
    /\ answer.error.response # Null
    /\ answer.error.response.status = 422
    /\ "errors" \in DOMAIN answer.error.response.data

\* errors holds one message per field of the errors map of a 422 body: the
\* first of a list, the message itself of a single one.
OneMessagePerField(errors, body) ==
    /\ DOMAIN errors = DOMAIN body
    /\ \A k \in DOMAIN body :
          errors[k] = IF body[k].isArray THEN body[k].items[1] ELSE body[k].message

\* C1: processing is true exactly when some submit that was started has
\* neither settled nor been cancelled by cancel(), in every interleaving of
\* submit, cancel and settling, overlapping submits included.
C1_ProcessingIffInFlight ==
    form.processing <=> (\E k \in Awaiting(calls) : ~IsCancelled(calls, k))

\* C2: when a single submit is cancelled in flight and settles, errors is
\* empty, neither onError nor onSuccess was invoked, onFinish was invoked,
\* processing is false, progress is null and state is 'cancelled'.
C2_CancelledSubmitSettles ==
    (settled # Null /\ settled.answer = Rejected(CancelError)) =>
        /\ form.errors = EmptyObject
        /\ Count(settled.log, "onError") = 0
        /\ Count(settled.log, "onSuccess") = 0
        /\ Count(settled.log, "onFinish") = 1
        /\ ~form.processing
        /\ form.progress = Null
        /\ form.state = CANCELLED

\* A submit of a form with a field marked dirty was cancelled in flight and
\* has settled.
C2_Witness ==
    /\ settled # Null
    /\ settled.answer = Rejected(CancelError)
    /\ HookNames(settled.log) = <<"onBefore", "onFinish">>
    /\ form.cancelTokenSource # Null
    /\ form.isDirty

\* C3: every submit that settles, whatever its outcome, has invoked onFinish
\* exactly once, after every other hook, also when onSuccess or onError threw.
C3_OnFinishOnceAndLast ==
    settled # Null =>
        /\ Count(settled.log, "onFinish") = 1
        /\ settled.log[Len(settled.log)].hook = "onFinish"

\* onSuccess threw, then onError threw, and onFinish still ran.
C3_Witness ==
    /\ settled # Null
    /\ HookNames(settled.log) = <<"onBefore", "onSuccess", "onError", "onFinish">>
    /\ settled.log[2].threw
    /\ settled.log[3].threw
    /\ settled.promise = "rejected"

\* C4: a 422 response with an errors map leaves errors holding one message
\* per field (the first of a list, the string itself), state 'error', onError
\* invoked with that map and onSuccess not invoked, and does not set
\* wasSuccessful to true.
C4_ValidationErrorsRecorded ==
    [][(settled' # Null /\ Is422WithErrors(settled'.answer)) =>
          /\ OneMessagePerField(form'.errors, settled'.answer.error.response.data.errors)
          /\ form'.state = ERROR
          /\ Invoked(settled'.log, "onError", form'.errors)
          /\ Count(settled'.log, "onSuccess") = 0
          /\ (form'.wasSuccessful => form.wasSuccessful)]_vars

\* A 422 response with a list of two messages for one field and a string for
\* the other has settled.
C4_Witness ==
    /\ settled # Null
    /\ Is422WithErrors(settled.answer)
    /\ DOMAIN form.errors = {"name", "email"}
    /\ form.errors["name"] = "Too short"
    /\ form.errors["email"] = "Invalid"
    /\ ~form.wasSuccessful

\* C5: after a submit whose request succeeded and none of whose hooks threw,
\* state is 'success', wasSuccessful and recentlySuccessful are true, the
\* dirty set is empty and isDirty false, onBefore, onSuccess and onFinish were
\* invoked once each, in that order, and onError was not invoked.
C5_SuccessfulSubmit ==
    (settled # Null /\ settled.answer = Resolved /\ NoHookThrew(settled.log)) =>
        /\ form.state = SUCCESS
        /\ form.wasSuccessful
        /\ form.recentlySuccessful
        /\ form.dirtyFields = {}
        /\ ~form.isDirty
        /\ HookNames(settled.log) = <<"onBefore", "onSuccess", "onFinish">>
        /\ Invoked(settled.log, "onSuccess", OkResponse)

\* A submit has succeeded while another one is still in flight.
C5_Witness ==
    /\ settled # Null
    /\ settled.answer = Resolved
    /\ NoHookThrew(settled.log)
    /\ form.progress # Null
    /\ InFlight(calls) > 0

\* C6: submitDebounced debounces on the trailing edge: of the calls made
\* within the delay of one another only the last one starts a submit, exactly
\* one, after the delay of that last call has elapsed and with its arguments.
C6_TrailingEdgeDebounce ==
    /\ Cardinality(Pending(timers, "debounce")) <= 1
    /\ debounced # Null =>
          /\ \A id \in Pending(timers, "debounce") :
                timers[id].callback = SubmitCallback(debounced.last)
          /\ Pending(timers, "debounce") # {} => debounced.started = <<>>
          /\ Pending(timers, "debounce") = {} => debounced.started = <<debounced.last>>

\* A call of submitDebounced replaced the pending timer of an earlier call,
\* its delay has elapsed, and the submit it started is in flight.
C6_Witness ==
    /\ debounced # Null
    /\ debounced.replaced
    /\ debounced.started = <<debounced.last>>
    /\ calls.latest = "flying"
    /\ form.processing

\* C7: cancel() called while no submit is in flight changes nothing: state,
\* processing, progress, errors, wasSuccessful, recentlySuccessful, data and
\* the dirty tracking stay as they were.
C7_CancelIdleIsNoOp ==
    [][(InFlight(calls) = 0 /\ Cancel) => form' = form]_vars

\* C8: when no hook throws, a failure of the transport (an HTTP error status,
\* a 422 without an errors map, a network failure, a cancellation) does not
\* reach the caller of submit: the promise resolves.
C8_TransportFailureResolves ==
    (settled # Null /\ settled.answer.kind = "rejected" /\ NoHookThrew(settled.log)) =>
        settled.promise = "resolved"

\* C9: errors is empty after construction, after every reset() and after
\* every submit that settles successfully, whatever was interleaved.
C9_ErrorsEmptyAfterSuccess ==
    /\ form.errors = EmptyObject
    /\ [][(Reset \/ (/\ settled' # Null
                     /\ settled'.answer = Resolved
                     /\ NoHookThrew(settled'.log)))
            => form'.errors = EmptyObject]_vars

\* C10: progress is null whenever no submit is in flight.
C10_ProgressNullWhenIdle ==
    InFlight(calls) = 0 => form.progress = Null

\* A submit settled with a success in this step and none of its hooks threw.
SucceededNow(s) == s # Null /\ s.answer = Resolved /\ NoHookThrew(s.log)

\* C11: recentlySuccessful is true only for a bounded window after a success:
\* it is true after a successful submit and false once the window timer has
\* fired; a success within the window of an earlier one replaces that timer,
\* so only the timer of the latest success is pending and only its firing (or
\* reset, or dispose) clears the flag; the flag eventually becomes false.
C11_RecentlySuccessfulWindow ==
    /\ [](Cardinality(Pending(timers, "recentlySuccessful")) <= 1)
    /\ [](form.recentlySuccessful =>
            /\ tmHas(form, "recentlySuccessful")
            /\ Pending(timers, "recentlySuccessful")
                  = {form.timeoutManager["recentlySuccessful"]})
    /\ [][SucceededNow(settled') => form'.recentlySuccessful]_vars
    /\ [][RecentlySuccessfulExpires => ~form'.recentlySuccessful]_vars
    /\ [][(form.recentlySuccessful /\ ~form'.recentlySuccessful)
            => (RecentlySuccessfulExpires \/ Reset \/ Dispose)]_vars
    /\ (form.recentlySuccessful ~> ~form.recentlySuccessful)

\* The window of a success has elapsed: its timer has fired, the flag is
\* false again and wasSuccessful still tells of the success.
C11_Witness ==
    /\ form.wasSuccessful
    /\ form.state = SUCCESS
    /\ ~form.recentlySuccessful
    /\ tmHas(form, "recentlySuccessful")
    /\ Pending(timers, "recentlySuccessful") = {}

\* C12: dispose() cancels the submission in flight, clears every pending
\* timer and resets the form: right after it data, defaults, errors and rules
\* are empty, the dirty set is empty, isDirty, processing, wasSuccessful and
\* recentlySuccessful are false, progress is null, state is 'idle' and no
\* timer is pending, so that a debounced submit scheduled before never starts.
C12_DisposeResets ==
    [][Dispose =>
          /\ form'.data = EmptyObject
          /\ form'.defaults = EmptyObject
          /\ form'.errors = EmptyObject
          /\ form'.rules = EmptyObject
          /\ form'.dirtyFields = {}
          /\ ~form'.isDirty
          /\ ~form'.processing
          /\ ~form'.wasSuccessful
          /\ ~form'.recentlySuccessful
          /\ form'.progress = Null
          /\ form'.state = IDLE
          /\ timers' = EmptyObject
          /\ \A k \in Awaiting(calls') : IsCancelled(calls', k)]_vars

\* A form was disposed of with a submit in flight and a debounced submit
\* scheduled: the request is cancelled and the debounced submit has not started.
C12_Witness ==
    /\ form.data = EmptyObject
    /\ form.state = IDLE
    /\ calls.latest = "cancelled"
    /\ debounced # Null
    /\ debounced.started = <<>>
    /\ timers = EmptyObject

\* C13: the lifecycle tag follows idle -> processing -> {success, error,
\* cancelled}: state is 'idle' initially; it changes to 'success', 'error' or
\* 'cancelled' only from 'processing' (a submit that fails before its request
\* passes through 'processing' within its step); submit moves any state to
\* 'processing'; reset and dispose move any state to 'idle'.
C13_LifecycleTag ==
    /\ form.state = IDLE
    /\ [][/\ (/\ form'.state \in {SUCCESS, ERROR, CANCELLED}
              /\ form'.state # form.state
              /\ ~(settled' # Null /\ settled'.answer.kind = "unsent"))
             => form.state = PROCESSING
          /\ (Submit /\ settled' = Null) => form'.state = PROCESSING
          /\ (Reset \/ Dispose) => form'.state = IDLE]_vars

C15_AssignmentMarksFieldDirty ==
    [][(/\ written' # Null
        /\ written'.key \in DOMAIN form.data
        /\ form.data[written'.key] # written'.value
        /\ form'.data[written'.key] = written'.value)
         => /\ isFieldDirty(form', written'.key)
            /\ written'.key \in getDirtyFields(form')]_vars

\* C16: in every reachable state isDirty is true if and only if at least one
\* field of data differs from its value in defaults.
C16_DirtyIffDiffersFromDefaults ==
    form.isDirty <=> (\E k \in DOMAIN form.data : form.data[k] # Get(form.defaults, k))

\* C17: assigning to an existing data field the value it already holds is
\* inert: it does not set isDirty, does not add the field to the dirty set
\* and leaves data and defaults unchanged.
C17_SameValueIsInert ==
    [][(/\ written' # Null
        /\ written'.key \in DOMAIN form.data
        /\ form.data[written'.key] = written'.value)
         => /\ form'.isDirty = form.isDirty
            /\ form'.dirtyFields = form.dirtyFields
            /\ form'.data = form.data
            /\ form'.defaults = form.defaults]_vars

\* C18: for every name of the reserved set, names of state properties of the
\* form and names of methods alike, an assignment through the proxy fails with
\* the reserved-name error and changes nothing.
C18_ReservedNameRefused ==
    [][(written' # Null /\ written'.key \in reservedFieldNames)
         => /\ written'.exc = ReservedNameError(written'.key)
            /\ ~written'.returned
            /\ form' = form]_vars

\* C19: no key of data is a reserved field name, in every reachable state:
\* after construction with any data object and after any proxy writes, reset,
\* setDefaults and fromJSON.
C19_NoReservedKeyInData ==
    (DOMAIN form.data) \cap reservedFieldNames = {}

\* C20: reset() with no arguments, from any reachable state, makes data equal
\* to the current defaults for every field, empties the dirty set and sets
\* isDirty false, errors empty, state 'idle', wasSuccessful false and
\* recentlySuccessful false.
C20_ResetRestoresDefaults ==
    [][ResetAll =>
          /\ form'.defaults = form.defaults
          /\ DOMAIN form'.data = DOMAIN form.defaults
          /\ \A k \in DOMAIN form.defaults : form'.data[k] = form.defaults[k]
          /\ form'.dirtyFields = {}
          /\ ~form'.isDirty
          /\ form'.errors = EmptyObject
          /\ form'.state = IDLE
          /\ ~form'.wasSuccessful
          /\ ~form'.recentlySuccessful]_vars

\* A form whose field was assigned and which was submitted with success has
\* been reset: the timer of the success is still pending, the form is idle
\* and clean and data holds the defaults, which are not the initial data.
C20_Witness ==
    /\ Pending(timers, "recentlySuccessful") # {}
    /\ form.state = IDLE
    /\ ~form.wasSuccessful
    /\ ~form.recentlySuccessful
    /\ ~form.isDirty
    /\ form.dirtyFields = {}
    /\ form.errors = EmptyObject
    /\ form.data = form.defaults
    /\ form.defaults # InitialData

\* C21: after any sequence of field assignments through the proxy, several
\* to the same field included, with no setDefaults or fromJSON call in
\* between, reset() restores every field to the value it had at construction.
C21_ResetRestoresInitialData ==
    [][ResetAll => form'.data = InitialData]_vars

\* C22: reset(f1, ..., fn) restores exactly the named fields to their
\* defaults and leaves the value of every other field untouched, removes only
\* the named fields from the dirty set, and leaves isDirty true exactly when
\* some field that was not named is still in the dirty set.
C22_NamedResetFrame ==
    [][\A fields \in (SUBSET DOMAIN form.data) \ {{}} :
          ResetOf(fields) =>
             /\ DOMAIN form'.data = DOMAIN form.data
             /\ \A k \in fields : form'.data[k] = form.defaults[k]
             /\ \A k \in (DOMAIN form.data) \ fields : form'.data[k] = form.data[k]
             /\ form'.defaults = form.defaults
             /\ form'.dirtyFields = form.dirtyFields \ fields
             /\ form'.isDirty <=>
                   (\E k \in (DOMAIN form.data) \ fields : isFieldDirty(form', k))]_vars

\* C23: snapshot-then-restore is the identity on data: from any reachable
\* state, setDefaults() with no arguments followed immediately by reset()
\* leaves every field of data equal to its value before the two calls.
C23_SnapshotThenRestoreIsIdentity ==
    [][SnapshotThenRestore => form'.data = form.data]_vars

\* C24: writing through the proxy a key that is neither a data field, nor an
\* own property, nor a member of the form is rejected (the trap does not
\* report success) and creates nothing: data, defaults, the form's own
\* properties and the dirty tracking are unchanged.
C24_UnknownKeyRejected ==
    [][(/\ written' # Null
        /\ written'.key \notin DOMAIN form.data
        /\ ~keyExistsIn(form, written'.key))
         => /\ ~written'.returned
            /\ form'.data = form.data
            /\ form'.defaults = form.defaults
            /\ DOMAIN form' = DOMAIN form
            /\ form'.dirtyFields = form.dirtyFields
            /\ form'.isDirty = form.isDirty
            /\ form' = form]_vars

\* A form whose name was assigned has refused the write of a key that
\* nothing defines: the trap returned false without an exception.
C24_Witness ==
    /\ written # Null
    /\ written.key = "nickname"
    /\ written.exc = NoExc
    /\ ~written.returned
    /\ "nickname" \notin DOMAIN form
    /\ "nickname" \notin DOMAIN form.data
    /\ form.data["name"] = "Ann"
    /\ form.isDirty

\* The body derived from an object: its multipart encoding when it contains
\* files, the object itself otherwise.
BodyOf(object) ==
    IF hasFiles(object) THEN FormDataBody(objectToFormData(object)) ELSE ObjectBody(object)

\* C25: when a transform callback is registered, the body submit hands to the
\* transport is derived from the callback's result applied to data (encoded
\* when it contains files), for every data value, data that contains a File
\* included; data itself is not replaced by the result.
C25_TransformedBodySent ==
    [][(sent' # Null /\ form.transformCallback # Null)
         => /\ sent'.data = BodyOf(Apply(form.transformCallback, form.data))
            /\ form'.data = form.data]_vars

\* The error a submit that settled ended with, other than a cancellation and
\* a 422 response: a rejection of the transport, or an exception thrown before
\* the request was made.
FailedWith(s) ==
    /\ s # Null
    /\ s.answer.kind \in {"rejected", "unsent"}
    /\ s.answer.error # CancelError
    /\ ~(/\ s.answer.error.kind = "axios"
          /\ s.answer.error.response # Null
          /\ s.answer.error.response.status = 422)

\* The message of the one category a failure belongs to.
CategoryMessage(error) ==
    IF error.kind = "axios"
    THEN IF error.response = Null
         THEN "Network error. Please check your connection and try again."
         ELSE LET status == error.response.status
              IN CASE status = 404 -> "The requested resource was not found."
                   [] status = 403 -> "You do not have permission to perform this action."
                   [] status = 401 -> "Authentication required. Please log in and try again."
                   [] status >= 500 -> "Server error. Please try again later."
                   [] OTHER -> "Server returned an error (" \o ToString(status)
                                  \o "). Please try again."
    ELSE IF error.kind = "error" THEN error.message
    ELSE "An unexpected error occurred"

C27_OnCanceledInvoked ==
    (/\ settled # Null
     /\ settled.answer = Rejected(CancelError)
     /\ "onCanceled" \in DOMAIN settled.options)
        => Count(settled.log, "onCanceled") >= 1

\* The submitted data are restored to the defaults.
DataRestored(f) == f.data = f.defaults

\* C28: resetOnSuccess determines whether the form resets after success: a
\* submit called with resetOnSuccess true whose request succeeds leaves data
\* restored to the defaults once it has settled; with resetOnSuccess false or
\* absent data keeps the submitted values.
C28_ResetOnSuccess ==
    [][(SucceededNow(settled'))
         => IF /\ "resetOnSuccess" \in DOMAIN settled'.options
               /\ settled'.options.resetOnSuccess
            THEN DataRestored(form')
            ELSE form'.data = form.data]_vars

(***************************************************************************)
(* Properties of validation.                                               *)
(***************************************************************************)
\* The rules of a field: none when form.rules has no entry for it.
RulesOf(f, field) == IF field \in DOMAIN f.rules THEN f.rules[field] ELSE <<>>

\* The rules of a field that do not pass for its value: those whose predicate
\* returns false or throws.
NotPassing(f, field) ==
    {i \in 1..Len(RulesOf(f, field)) :
        Evaluate(RulesOf(f, field)[i], Get(f.data, field)) # "true"}

\* The first of them.
FirstNotPassing(f, field) ==
    CHOOSE i \in NotPassing(f, field) : \A j \in NotPassing(f, field) : i <= j

\* The error validateField is to record for a field one of whose rules does
\* not pass: the message of the first such rule, or the fixed message when its
\* predicate throws.
ExpectedError(f, field) ==
    LET rule == RulesOf(f, field)[FirstNotPassing(f, field)]
    IN IF Evaluate(rule, Get(f.data, field)) = "throws"
       THEN "Validation error occurred"
       ELSE rule.message

\* C29: validateField(f) runs the rules of f in order against data[f]: the
\* first rule whose predicate returns false sets errors[f] to that rule's
\* message, the remaining rules are skipped and it returns false; a predicate
\* that throws sets errors[f] to 'Validation error occurred' and it returns
\* false; when every rule passes it returns true and errors[f] is absent;
\* errors of other fields are never changed.
C29_ValidateField ==
    [][(validated' # Null /\ validated'.call = "validateField")
         => LET field == validated'.field
            IN /\ IF NotPassing(form, field) = {}
                  THEN /\ validated'.result
                       /\ field \notin DOMAIN form'.errors
                  ELSE /\ ~validated'.result
                       /\ field \in DOMAIN form'.errors
                       /\ form'.errors[field] = ExpectedError(form, field)
               /\ (DOMAIN form'.errors) \ {field} = (DOMAIN form.errors) \ {field}
               /\ \A k \in (DOMAIN form.errors) \ {field} :
                     form'.errors[k] = form.errors[k]]_vars

\* The fields modified since the last reset or successful submission: those
\* assigned a new value through the proxy, and those the caller marked.  Where
\* the defaults change by the proxy's writes only, which store the value
\* replaced, a field was assigned a new value since the last reset exactly
\* when it differs from its default.
ModifiedFields(f) ==
    {k \in DOMAIN f.data : f.data[k] # Get(f.defaults, k)} \cup f.dirtyFields

\* The fields among those given that have rules, and those of them one of
\* whose rules does not pass.
WithRules(f, fields) == {k \in fields : Len(RulesOf(f, k)) > 0}

Failing(f, fields) == {k \in WithRules(f, fields) : NotPassing(f, k) # {}}

\* C30: validate(false) clears errors first, validates every field that has
\* rules and returns true iff none failed; validate(true) validates only the
\* fields modified since the last reset or successful submission, returns
\* true iff none of them failed, and leaves the errors other fields already
\* have in place.
C30_Validate ==
    [][(validated' # Null /\ validated'.call = "validate")
         => IF ~validated'.onlyDirty
            THEN LET failing == Failing(form, DOMAIN form.rules)
                 IN /\ validated'.result <=> (failing = {})
                    /\ DOMAIN form'.errors = failing
                    /\ \A k \in failing : form'.errors[k] = ExpectedError(form, k)
            ELSE LET modified == ModifiedFields(form)
                     failing == Failing(form, modified)
                 IN /\ validated'.result <=> (failing = {})
                    /\ \A k \in failing :
                          /\ k \in DOMAIN form'.errors
                          /\ form'.errors[k] = ExpectedError(form, k)
                    /\ \A k \in (DOMAIN form.errors) \ modified :
                          /\ k \in DOMAIN form'.errors
                          /\ form'.errors[k] = form.errors[k]]_vars

(***************************************************************************)
(* Properties of the payload encoder.                                      *)
(***************************************************************************)
\* The leaves below a value, each with the path of keys and indices that
\* leads to it: the values that are neither a plain object nor an array.
RECURSIVE LeavesIn(_, _)
LeavesIn(value, path) ==
    IF value.type \in {"object", "array"}
    THEN UNION {LeavesIn(value.entries[k], Append(path, k)) : k \in DOMAIN value.entries}
    ELSE {[path |-> path, leaf |-> value]}

\* The leaves of the data of a form.
LeavesOf(data) == UNION {LeavesIn(Structure(data[k]), <<k>>) : k \in DOMAIN data}

\* The bracket-composed key of a path: a[b][0] of <<a, b, 0>>.
RECURSIVE PathKey(_)
PathKey(path) ==
    IF Len(path) = 1
    THEN path[1]
    ELSE PathKey(SubSeq(path, 1, Len(path) - 1)) \o "[" \o path[Len(path)] \o "]"

\* The text or binary a leaf is encoded as.
Encoded(leaf) ==
    CASE leaf.type = "boolean" -> IF leaf.value = "true" THEN "1" ELSE "0"
      [] leaf.type \in {"null", "undefined"} -> ""
      [] leaf.type = "Date" -> "1970-01-01T00:00:00.000Z"
      [] OTHER -> leaf.value

\* C31: the body submit passes to the transport is the data object itself
\* when no leaf of data, at any depth, is a binary; when one is, the body is a
\* FormData with exactly one entry per leaf, keyed by the bracket-composed
\* path of the leaf, a boolean encoded as '1' or '0', null and undefined as
\* the empty string, a Date as its ISO string, a binary attached as it is.
C31_PayloadEncoding ==
    [][sent' # Null =>
         LET leaves == LeavesOf(form.data)
         IN IF \A l \in leaves : l.leaf.type \notin {"File", "Blob"}
            THEN sent'.data = ObjectBody(form.data)
            ELSE /\ sent'.data.kind = "FormData"
                 /\ sent'.data.entries = {Entry(PathKey(l.path), Encoded(l.leaf)) : l \in leaves}
                 /\ Cardinality(sent'.data.entries) = Cardinality(leaves)]_vars

\* A form with a File in an array of a nested object, a boolean, null and a
\* Date among its values was submitted: its body is a FormData.
C31_Witness ==
    /\ sent # Null
    /\ sent.data.kind = "FormData"
    /\ Entry("user[tags][1]", FileValue) \in sent.data.entries
    /\ Entry("user[note]", "") \in sent.data.entries
    /\ Entry("inactive", "0") \in sent.data.entries
    /\ Entry("born", "1970-01-01T00:00:00.000Z") \in sent.data.entries
    /\ form.processing

\* C32: toFormData() is the unconditional variant of the payload encoder: for
\* every data value it returns the entries objectToFormData(data) returns,
\* for boolean, null, undefined and Date leaves in particular.
C32_ToFormDataIsTheEncoder ==
    [][exported' # Null => exported'.entries = objectToFormData(form.data)]_vars

(***************************************************************************)
(* Properties of the TimeoutManager.                                       *)
(***************************************************************************)
\* C33: has(key) tells whether a callback is pending under key: in every
\* state it is true exactly when a callback scheduled by set(key, ...) has
\* neither fired nor been cancelled by clear(key), clearAll() or a later set.
C33_HasIffPending ==
    \A key \in {"debounce", "recentlySuccessful"} :
        tmHas(form, key) <=> (Pending(timers, key) # {})

(***************************************************************************)
(* Properties of overlapping and consecutive submissions.                  *)
(***************************************************************************)
\* C34: wasSuccessful tells of the submit that settled last: in every state
\* in which state is 'error', wasSuccessful is false, also when the failing
\* submit follows a successful one and when the error state is that of an
\* onSuccess hook that threw.
C34_NotSuccessfulInErrorState ==
    form.state = ERROR => ~form.wasSuccessful

\* C35: every call of submit invokes at most one of onSuccess and onError,
\* whatever the transport answers and also when a hook throws.
C35_OnSuccessOrOnError ==
    settled # Null =>
        Count(settled.log, "onSuccess") + Count(settled.log, "onError") <= 1

\* C36: the processing flag and the lifecycle tag agree: in every state, for
\* every interleaving of submit, the settling of requests, cancel, reset and
\* dispose, processing is true exactly when state is 'processing'.
C36_ProcessingIffProcessingState ==
    form.processing <=> (form.state = PROCESSING)

\* C37: a field assigned a new value while a submit is in flight, after the
\* body of the request was prepared, is still reported dirty (isDirty is
\* true) after that submit has settled successfully.  Stated of the submits
\* that settle right after the assignment.
C37_AssignedInFlightStaysDirty ==
    [][(/\ written # Null
        /\ written.returned
        /\ written.key \in DOMAIN form.data
        /\ form.data[written.key] = written.value
        /\ InFlight(calls) > 0
        /\ SucceededNow(settled'))
         => form'.isDirty]_vars

\* C38: cancel() cancels every submission in flight: when it is called while
\* two or more submits overlap, the request of each of them is given the
\* cancellation, so that none of them settles as a success or an error later.
C38_CancelCancelsEverySubmit ==
    [][Cancel => \A k \in Awaiting(calls') : IsCancelled(calls', k)]_vars

\* The fields of a form as dispose() leaves them, the lifecycle tag apart.
DisposedFields(f) ==
    /\ f.data = EmptyObject
    /\ f.defaults = EmptyObject
    /\ f.errors = EmptyObject
    /\ f.dirtyFields = {}
    /\ ~f.isDirty
    /\ ~f.processing
    /\ ~f.wasSuccessful
    /\ ~f.recentlySuccessful
    /\ f.progress = Null

\* C39: dispose() is final for the lifecycle tag: after dispose() was called
\* while a submit was in flight, state is 'idle' and stays 'idle', and data,
\* errors and the flags stay empty and false, when the cancelled submit
\* settles.
C39_DisposeIsFinal ==
    [][(/\ DisposedFields(form)
        /\ form.state = IDLE
        /\ settled' # Null
        /\ settled'.answer = Rejected(CancelError))
         => (DisposedFields(form') /\ form'.state = IDLE)]_vars

\* C40: every submit completes: provided the transport settles every call
\* in the end (it resolves, rejects or is cancelled), a submit that was started
\* reaches its exit block, where processing is set to false and onFinish is
\* invoked, and state is then one of 'success', 'error' and 'cancelled'.
C40_EverySubmitCompletes ==
    /\ [](settled # Null =>
            /\ ~form.processing
            /\ Count(settled.log, "onFinish") = 1
            /\ settled.log[Len(settled.log)].hook = "onFinish"
            /\ form.state \in {SUCCESS, ERROR, CANCELLED})
    /\ ((InFlight(calls) > 0) ~> (settled # Null /\ InFlight(calls) = 0))

\* A submit has completed with a success and its onFinish hook threw: the
\* promise is rejected, processing is false and no request is in flight.
C40_Witness ==
    /\ settled # Null
    /\ settled.answer = Resolved
    /\ HookNames(settled.log) = <<"onBefore", "onSuccess", "onFinish">>
    /\ settled.log[3].threw
    /\ settled.promise = "rejected"
    /\ form.state = SUCCESS
    /\ ~form.processing
    /\ InFlight(calls) = 0

====
